---- MODULE Spec2Model ----
(***************************************************************************)
(* Session lifecycle of tap-csma-virtual-machine.cc: the controller thread *)
(* (main: command loop, start_thread, stop_thread, restart_thread) and the *)
(* detached worker threads running ns3task/createSimulation, interleaved   *)
(* at the granularity of the calls each thread makes.                      *)
(***************************************************************************)
EXTENDS Integers, Sequences, FiniteSets, TLC

VARIABLES
    pc,              \* position of the controller thread in main / start_thread / stop_thread
    op,              \* what the controller is executing: "main" (line 186), "stop", "restart"
    in,              \* main's token buffer `char in[1024]`
    delay,           \* main's local `delay`
    n_nodes,         \* main's local `n_nodes`
    argDelay,        \* by-value parameter `delay` of restart_thread/start_thread
    argN,            \* by-value parameter `n_nodes` of restart_thread/start_thread
    thrd,            \* start_thread's local std::thread: the thread it owns, NoHandle once detached
    native_handler,  \* the global pthread_t
    csma,            \* the global CsmaHelper: the value of its channel attribute "Delay"
    simStop,         \* the engine's pending request to leave the run loop
    workers,         \* thread handle -> state of the thread that has this handle
    unread,          \* a failed scanf("%d") left the token it could not convert in stdin
    eof,             \* stdin is closed
    consumed,        \* history: the item the most recent scanf call consumed
    latest,          \* history: the handle of the most recently created thread
    calls            \* history: the calls the controller made for the command being handled

vars == <<pc, op, in, delay, n_nodes, argDelay, argN, thrd, native_handler, csma,
          simStop, workers, unread, eof, consumed, latest, calls>>

ctlVars == <<pc, op, in, delay, n_nodes, argDelay, argN, thrd, native_handler,
             unread, eof, consumed, latest, calls>>

-----------------------------------------------------------------------------
(* Bounds and input sets *)

\* The number of threads the process can create in one run. Every thread gets
\* a handle of its own: a handle could only be given out again after its thread
\* has terminated, and by then start_thread has overwritten native_handler.
MaxThreads == 2

Threads == 1..MaxThreads

\* The zero-initialised global native_handler, and a std::thread that owns no thread.
NoHandle == 0

\* What the operator may type: tokens that fit the 1024 bytes of `in`, and
\* integers that fit an int. No negative node count: nodes.Create takes an unsigned.
Commands == {"stop", "chgd", "chgn"}
Words == Commands \cup {"foo"}
\* What `in` may hold before the first scanf has stored a token: the array is not
\* initialised, and nothing has written a command there.
Uninitialised == {"", "foo"}
DelayInputs == {"50"}
NodeInputs == {"0", "2"}

-----------------------------------------------------------------------------
(* Conversions *)

\* scanf("%d"): the integer a numeric token converts to.
Atoi(s) ==
    CASE s = "-1" -> -1
      [] s = "0" -> 0
      [] s = "2" -> 2
      [] s = "50" -> 50

Digit(d) ==
    CASE d = 0 -> "0" [] d = 1 -> "1" [] d = 2 -> "2" [] d = 3 -> "3" [] d = 4 -> "4"
      [] d = 5 -> "5" [] d = 6 -> "6" [] d = 7 -> "7" [] d = 8 -> "8" [] d = 9 -> "9"

\* printf-style "%d" of a non-negative int.
RECURSIVE Itoa(_)
Itoa(i) == IF i < 10 THEN Digit(i) ELSE Itoa(i \div 10) \o Digit(i % 10)

\* sprintf(str, "tap%d-ns", i)
TapName(i) == "tap" \o Itoa(i) \o "-ns"

-----------------------------------------------------------------------------
(* Threads *)

\* A handle no thread has.
Idle ==
    [pc |-> "none", delay |-> 0, n |-> 0, cancel |-> FALSE,
     nodes |-> 0, chan |-> <<>>, bridges |-> <<>>]

\* ns3task with the two GlobalValue::Bind calls of lines 86-87 left out: the
\* thread begins at nodes.Create.
ns3taskNoBind(d, n) ==
    [pc |-> "create", delay |-> d, n |-> n, cancel |-> FALSE,
     nodes |-> 0, chan |-> <<>>, bridges |-> <<>>]

\* ns3task(delay, n_nodes) at its first statement, with the arguments copied.
ns3task(d, n) ==
    [pc |-> "configure", delay |-> d, n |-> n, cancel |-> FALSE,
     nodes |-> 0, chan |-> <<>>, bridges |-> <<>>]

Alive(w) == workers[w].pc # "none"

AliveThreads == {w \in Threads : Alive(w)}

\* The session status of the data model: Running while a started worker has not terminated.
Running == AliveThreads # {}

status == IF Running THEN "Running" ELSE "Stopped"

Call(fn, a, b) == [fn |-> fn, a |-> a, b |-> b]

Item(kind, text) == [kind |-> kind, text |-> text]

-----------------------------------------------------------------------------
Init ==
    /\ pc = "start_spawn"
    /\ op = "main"
    /\ in \in Uninitialised
    /\ n_nodes = 3
    /\ delay = 0
    /\ argDelay = 0
    /\ argN = 3
    /\ thrd = NoHandle
    /\ native_handler = NoHandle
    /\ csma = 0
    /\ simStop = FALSE
    /\ workers = [w \in Threads |-> Idle]
    /\ unread = FALSE
    /\ eof = FALSE
    /\ consumed = Item("none", "")
    /\ latest = NoHandle
    /\ calls = <<>>

-----------------------------------------------------------------------------
(* The engine and the thread library, as the controller and the workers use them *)

\* The handle the next thread gets.
NextHandle == latest + 1

\* std::thread::native_handle(): the handle of the owned thread.
NativeHandle(t) == t

\* pthread_cancel(h) on a thread that has disabled cancellation: the request stays
\* pending and the thread never acts on it.
CancelLost(h) == workers

\* pthread_cancel(h) on a living thread: a cancellation request the thread acts on
\* at its next cancellation point.
Cancelled(h) == [workers EXCEPT ![h].cancel = TRUE]

\* Simulator::Stop(): the run loop is asked to exit.
SimulatorStop == simStop' = TRUE

\* Simulator::Destroy(): the engine instance and what it holds are released.
SimulatorDestroy == simStop' = FALSE

\* Simulator::Run() is entered: it blocks until a stop is requested from then on.
SimulatorRun == simStop' = FALSE

-----------------------------------------------------------------------------
(* Controller thread: start_thread, stop_thread, restart_thread *)

\* line 158: std::thread thrd(ns3task, delay, n_nodes)
StartSpawn ==
    /\ pc = "start_spawn"
    /\ latest < MaxThreads
    /\ workers' = [workers EXCEPT ![NextHandle] = ns3task(argDelay, argN)]
    /\ thrd' = NextHandle
    /\ latest' = NextHandle
    /\ calls' = Append(calls, Call("std::thread", argDelay, argN))
    /\ pc' = "start_handle"
    /\ UNCHANGED <<op, in, delay, n_nodes, argDelay, argN, native_handler, csma, simStop,
                   unread, eof, consumed>>

\* StartRecord with lines 159 and 160 exchanged: the handle is read from a
\* std::thread that has been detached and owns no thread any more.
StartRecordDetachFirst ==
    /\ pc = "start_handle"
    /\ thrd' = NoHandle
    /\ native_handler' = NativeHandle(thrd')
    /\ in' = IF op = "main" THEN in ELSE ""
    /\ pc' = "prompt"
    /\ UNCHANGED <<op, delay, n_nodes, argDelay, argN, csma, simStop, workers,
                   unread, eof, consumed, latest, calls>>

\* lines 159-161: native_handler = thrd.native_handle(); thrd.detach(); return.
\* start_thread returns to line 187 (in untouched) or, inside restart_thread, to the
\* end of the loop body, line 210.
StartRecord ==
    /\ pc = "start_handle"
    /\ native_handler' = NativeHandle(thrd)
    /\ thrd' = NoHandle
    /\ in' = IF op = "main" THEN in ELSE ""
    /\ pc' = "prompt"
    /\ UNCHANGED <<op, delay, n_nodes, argDelay, argN, csma, simStop, workers,
                   unread, eof, consumed, latest, calls>>

\* line 166: pthread_cancel(native_handler). The handle of a thread that has
\* terminated (detached, so its resources are gone) or no handle at all is a
\* dangling argument: the call does nothing, or the process dies.
StopCancel ==
    /\ pc = "stop_cancel"
    /\ calls' = Append(calls, Call("pthread_cancel", native_handler, 0))
    /\ IF native_handler \in Threads /\ Alive(native_handler)
       THEN /\ workers' = Cancelled(native_handler)
            /\ pc' = "stop_simstop"
       ELSE \/ /\ workers' = workers
               /\ pc' = "stop_simstop"
            \/ /\ workers' = [w \in Threads |-> Idle]
               /\ pc' = "aborted"
    /\ UNCHANGED <<op, in, delay, n_nodes, argDelay, argN, thrd, native_handler, csma,
                   simStop, unread, eof, consumed, latest>>

\* StopSimStop with lines 167 and 168 exchanged: Simulator::Destroy() comes first.
StopSimStopDestroysFirst ==
    /\ pc = "stop_simstop"
    /\ SimulatorDestroy
    /\ calls' = Append(calls, Call("Simulator::Destroy", 0, 0))
    /\ pc' = "stop_destroy"
    /\ UNCHANGED <<op, in, delay, n_nodes, argDelay, argN, thrd, native_handler, csma,
                   workers, unread, eof, consumed, latest>>

\* line 167: Simulator::Stop()
StopSimStop ==
    /\ pc = "stop_simstop"
    /\ SimulatorStop
    /\ calls' = Append(calls, Call("Simulator::Stop", 0, 0))
    /\ pc' = "stop_destroy"
    /\ UNCHANGED <<op, in, delay, n_nodes, argDelay, argN, thrd, native_handler, csma,
                   workers, unread, eof, consumed, latest>>

\* line 168: Simulator::Destroy() is called
StopDestroyEnter ==
    /\ pc = "stop_destroy"
    /\ calls' = Append(calls, Call("Simulator::Destroy", 0, 0))
    /\ pc' = "stop_destroying"
    /\ UNCHANGED <<op, in, delay, n_nodes, argDelay, argN, thrd, native_handler, csma,
                   simStop, workers, unread, eof, consumed, latest>>

\* StopDestroy with line 175 left out of restart_thread: after stop_thread it
\* returns to the loop without calling start_thread.
StopDestroyNoStart ==
    /\ pc = "stop_destroying"
    /\ SimulatorDestroy
    /\ pc' = "prompt"
    /\ in' = ""
    /\ UNCHANGED <<op, delay, n_nodes, argDelay, argN, thrd, native_handler, csma,
                   workers, unread, eof, consumed, latest, calls>>

\* lines 168-169: Simulator::Destroy() completes; return. Inside restart_thread the
\* next statement is start_thread (line 175); after the stop command it is line 210.
StopDestroy ==
    /\ pc = "stop_destroying"
    /\ SimulatorDestroy
    /\ IF op = "restart"
       THEN pc' = "start_spawn" /\ in' = in
       ELSE pc' = "prompt" /\ in' = ""
    /\ UNCHANGED <<op, delay, n_nodes, argDelay, argN, thrd, native_handler, csma,
                   workers, unread, eof, consumed, latest, calls>>

-----------------------------------------------------------------------------
(* Controller thread: the command loop of main *)

\* lines 191-192: printf("> "); scanf("%s", in). At end of input nothing is stored.
ReadToken ==
    /\ pc = "prompt"
    /\ \/ /\ ~eof
          /\ \E t \in Words : in' = t /\ consumed' = Item("word", t)
          /\ unread' = FALSE
          /\ eof' = eof
       \/ /\ ~unread
          /\ eof' = TRUE
          /\ consumed' = Item("eof", "")
          /\ UNCHANGED <<in, unread>>
    /\ pc' = "dispatch"
    /\ UNCHANGED <<op, delay, n_nodes, argDelay, argN, thrd, native_handler, csma, simStop,
                   workers, latest, calls>>

\* Dispatch with the first test written `if (strcmp(in, "stop"))`: it is taken
\* by every token that is not a command.
DispatchUnknownStops ==
    /\ pc = "dispatch"
    /\ calls' = <<>>
    /\ CASE in = "stop" -> pc' = "prompt" /\ op' = op /\ in' = ""
         [] in = "chgd" -> pc' = "read_d" /\ op' = op /\ in' = in
         [] in = "chgn" -> pc' = "read_n" /\ op' = op /\ in' = in
         [] OTHER -> pc' = "stop_cancel" /\ op' = "stop" /\ in' = in
    /\ UNCHANGED <<delay, n_nodes, argDelay, argN, thrd, native_handler, csma, simStop,
                   workers, unread, eof, consumed, latest>>

\* lines 193-210: the three strcmp tests; a token that matches none of them
\* falls through to in[0] = 0.
Dispatch ==
    /\ pc = "dispatch"
    /\ calls' = <<>>
    /\ CASE in = "stop" -> pc' = "stop_cancel" /\ op' = "stop" /\ in' = in
         [] in = "chgd" -> pc' = "read_d" /\ op' = op /\ in' = in
         [] in = "chgn" -> pc' = "read_n" /\ op' = op /\ in' = in
         [] OTHER -> pc' = "prompt" /\ op' = op /\ in' = ""
    /\ UNCHANGED <<delay, n_nodes, argDelay, argN, thrd, native_handler, csma, simStop,
                   workers, unread, eof, consumed, latest>>

\* scanf("%d", &x): x becomes the integer read; a token that is no integer (one
\* of Words, which the next scanf("%s") then reads) stays in stdin and x keeps its
\* value; so it does at end of input.
ScanfInt(inputs, old, new) ==
    \/ /\ ~eof
       /\ \E t \in inputs : new = Atoi(t) /\ consumed' = Item("int", t)
       /\ UNCHANGED <<unread, eof>>
    \/ /\ ~eof
       /\ unread' = TRUE
       /\ new = old
       /\ consumed' = Item("none", "")
       /\ eof' = eof
    \/ /\ new = old
       /\ eof' = TRUE
       /\ consumed' = Item("eof", "")
       /\ unread' = unread

\* lines 200-202: scanf("%d", &delay); restart_thread(delay, n_nodes)
ReadDelay ==
    /\ pc = "read_d"
    /\ ScanfInt(DelayInputs, delay, delay')
    /\ n_nodes' = n_nodes
    /\ argDelay' = delay'
    /\ argN' = n_nodes'
    /\ op' = "restart"
    /\ pc' = "stop_cancel"
    /\ UNCHANGED <<in, thrd, native_handler, csma, simStop, workers, latest, calls>>

\* ReadNodes with the arguments of the call exchanged: restart_thread(n_nodes, delay)
ReadNodesSwapped ==
    /\ pc = "read_n"
    /\ ScanfInt(NodeInputs, n_nodes, n_nodes')
    /\ delay' = delay
    /\ argDelay' = n_nodes'
    /\ argN' = delay'
    /\ op' = "restart"
    /\ pc' = "stop_cancel"
    /\ UNCHANGED <<in, thrd, native_handler, csma, simStop, workers, latest, calls>>

\* lines 206-208: scanf("%d", &n_nodes); restart_thread(delay, n_nodes)
ReadNodes ==
    /\ pc = "read_n"
    /\ ScanfInt(NodeInputs, n_nodes, n_nodes')
    /\ delay' = delay
    /\ argDelay' = delay'
    /\ argN' = n_nodes'
    /\ op' = "restart"
    /\ pc' = "stop_cancel"
    /\ UNCHANGED <<in, thrd, native_handler, csma, simStop, workers, latest, calls>>

-----------------------------------------------------------------------------
(* Worker thread: ns3task -> createSimulation *)

\* lines 86-87: GlobalValue::Bind of the simulator type and of ChecksumEnabled
WConfigure(w) ==
    /\ workers[w].pc = "configure"
    /\ workers' = [workers EXCEPT ![w].pc = "create"]
    /\ UNCHANGED <<ctlVars, csma, simStop>>

\* lines 94-95: nodes.Create(n_nodes)
WCreate(w) ==
    /\ workers[w].pc = "create"
    /\ workers' = [workers EXCEPT ![w].pc = "setdelay", ![w].nodes = workers[w].n]
    /\ UNCHANGED <<ctlVars, csma, simStop>>

\* line 110: csma.SetChannelAttribute("Delay", MilliSeconds(delay)) on the global helper
WSetDelay(w) ==
    /\ workers[w].pc = "setdelay"
    /\ csma' = workers[w].delay
    /\ workers' = [workers EXCEPT ![w].pc = "install"]
    /\ UNCHANGED <<ctlVars, simStop>>

\* line 111: devices = csma.Install(nodes): one channel, made with the helper's
\* attributes as they are now, and one device per node on it
WInstall(w) ==
    /\ workers[w].pc = "install"
    /\ workers' = [workers EXCEPT ![w].pc = "bridge",
                                  ![w].chan = <<[delay |-> csma, ndev |-> workers[w].nodes]>>]
    /\ UNCHANGED <<ctlVars, csma, simStop>>

\* lines 123-129: the bridge loop from index i on: each iteration names the tap
\* with sprintf and installs a bridge on node i and device i
RECURSIVE BridgeLoop(_, _, _)
BridgeLoop(i, n, done) ==
    IF i < n
    THEN BridgeLoop(i + 1, n, Append(done, [name |-> TapName(i), node |-> i, dev |-> i]))
    ELSE done

\* WBridge with n_nodes handed to the thread by reference (std::ref): the loop
\* bound is main's variable as it is when the loop runs.
WBridgeSharedCount(w) ==
    /\ workers[w].pc = "bridge"
    /\ workers' = [workers EXCEPT
                     ![w].bridges = BridgeLoop(0, n_nodes, <<>>),
                     ![w].pc = "run"]
    /\ UNCHANGED <<ctlVars, csma, simStop>>

\* lines 120-129: the TapBridgeHelper (local to the thread) and the whole loop
WBridge(w) ==
    /\ workers[w].pc = "bridge"
    /\ workers' = [workers EXCEPT
                     ![w].bridges = BridgeLoop(0, workers[w].n, <<>>),
                     ![w].pc = "run"]
    /\ UNCHANGED <<ctlVars, csma, simStop>>

\* line 132: Simulator::Run() is entered
WRun(w) ==
    /\ workers[w].pc = "run"
    /\ SimulatorRun
    /\ workers' = [workers EXCEPT ![w].pc = "running"]
    /\ UNCHANGED <<ctlVars, csma>>

\* line 132: Simulator::Run() returns once a stop has been requested
WRunReturn(w) ==
    /\ workers[w].pc = "running"
    /\ simStop
    /\ workers' = [workers EXCEPT ![w].pc = "destroy"]
    /\ UNCHANGED <<ctlVars, csma, simStop>>

\* line 133: Simulator::Destroy() is called
WDestroyEnter(w) ==
    /\ workers[w].pc = "destroy"
    /\ workers' = [workers EXCEPT ![w].pc = "destroying"]
    /\ UNCHANGED <<ctlVars, csma, simStop>>

\* lines 133-134, 140: Simulator::Destroy() completes; the thread function returns
WDestroy(w) ==
    /\ workers[w].pc = "destroying"
    /\ SimulatorDestroy
    /\ workers' = [workers EXCEPT ![w] = Idle]
    /\ UNCHANGED <<ctlVars, csma>>

\* A thread with a pending cancellation request reaches a cancellation point
\* inside one of the calls it makes, and ends there.
WCancelled(w) ==
    /\ Alive(w)
    /\ workers[w].cancel
    /\ workers' = [workers EXCEPT ![w] = Idle]
    /\ UNCHANGED <<ctlVars, csma, simStop>>

\* lines 136-140, 158: the engine fails inside createSimulation, during setup or
\* in the run loop. ns3task has no handler and is the function of a std::thread:
\* the failure ends in std::terminate, and the process with all its threads dies.
WEngineFault(w) ==
    /\ workers[w].pc \in {"configure", "create", "setdelay", "install", "bridge", "run", "running"}
    /\ workers' = [v \in Threads |-> Idle]
    /\ pc' = "aborted"
    /\ UNCHANGED <<op, in, delay, n_nodes, argDelay, argN, thrd, native_handler, csma,
                   simStop, unread, eof, consumed, latest, calls>>

Next ==
    \/ StartSpawn
    \/ StartRecord
    \/ StopCancel
    \/ StopSimStop
    \/ StopDestroyEnter
    \/ StopDestroy
    \/ ReadToken
    \/ Dispatch
    \/ ReadDelay
    \/ ReadNodes
    \/ \E w \in Threads : WConfigure(w)
    \/ \E w \in Threads : WCreate(w)
    \/ \E w \in Threads : WSetDelay(w)
    \/ \E w \in Threads : WInstall(w)
    \/ \E w \in Threads : WBridge(w)
    \/ \E w \in Threads : WRun(w)
    \/ \E w \in Threads : WRunReturn(w)
    \/ \E w \in Threads : WDestroyEnter(w)
    \/ \E w \in Threads : WDestroy(w)
    \/ \E w \in Threads : WCancelled(w)

Spec == Init /\ [][Next]_vars

\* The program with an engine that can fail.
NextFault ==
    \/ Next
    \/ \E w \in Threads : WEngineFault(w)

SpecFault == Init /\ [][NextFault]_vars

\* The steps of one worker thread.
WorkerStep(w) ==
    \/ WConfigure(w)
    \/ WCreate(w)
    \/ WSetDelay(w)
    \/ WInstall(w)
    \/ WBridge(w)
    \/ WRun(w)
    \/ WRunReturn(w)
    \/ WDestroyEnter(w)
    \/ WDestroy(w)
    \/ WCancelled(w)

\* The steps of the controller thread that do not wait for the operator: every
\* call of start_thread and stop_thread, the strcmp tests, and a scanf at end of
\* input, which returns at once.
ControllerStep ==
    \/ StartSpawn
    \/ StartRecord
    \/ StopCancel
    \/ StopSimStop
    \/ StopDestroyEnter
    \/ StopDestroy
    \/ Dispatch
    \/ eof /\ (ReadToken \/ ReadDelay \/ ReadNodes)

\* The operating system schedules every thread that can run: the controller
\* thread while it is not blocked in a read, and each worker thread.
FairSpec ==
    /\ Spec
    /\ WF_vars(ControllerStep)
    /\ \A w \in Threads : WF_vars(WorkerStep(w))

-----------------------------------------------------------------------------
(* Properties *)

LastCall == calls[Len(calls)]

\* stop_thread has returned and start_thread has not been called since.
StopReturned ==
    /\ pc \in {"prompt", "start_spawn"}
    /\ calls # <<>>
    /\ LastCall.fn = "Simulator::Destroy"

\* C1: at every instant at most one worker thread that was started has not yet
\* terminated, the window inside restart_thread and an unwinding worker included.
C1_AtMostOneRunning == Cardinality(AliveThreads) <= 1

\* C2: once stop_thread has returned, and until the next start, no session is
\* Running: no started worker is still alive.
C2_StoppedAfterStop == StopReturned => status = "Stopped"

\* C3: stop_thread executed while the status is Stopped is a no-op: its first
\* step makes no pthread_cancel call, does not end the process and leaves the
\* handle and the threads as they are.
C3_StopWhenStoppedIsNoOp ==
    [][(pc = "stop_cancel" /\ status = "Stopped" /\ pc' # pc)
         => /\ \A k \in DOMAIN calls' : calls'[k].fn # "pthread_cancel"
            /\ pc' # "aborted"
            /\ native_handler' = native_handler
            /\ workers' = workers]_vars

\* C4: every channel a worker builds has the delay and the endpoint count of the
\* configuration that worker was started with, never the delay of another one.
C4_NoHybridSession ==
    \A w \in Threads :
        workers[w].chan # <<>> =>
            /\ workers[w].chan[1].delay = workers[w].delay
            /\ workers[w].chan[1].ndev = workers[w].n

\* C5: start with endpointCount <= 0 or delayMillis < 0 spawns no worker thread:
\* no thread ever runs with such a configuration.
C5_InvalidConfigRejected ==
    \A w \in Threads : Alive(w) => workers[w].n > 0 /\ workers[w].delay >= 0

\* C6: the worker handle is present only while Running: once stop_thread has
\* returned the handle is released.
C6_HandleReleasedAfterStop == StopReturned => native_handler = NoHandle

\* C7: start_thread returns only with the handle of the thread it created
\* recorded, so outside start_thread native_handler is the handle of the most
\* recently started worker, and the handle every stop cancels is that one.
C7_StopCancelsLatestWorker ==
    /\ pc # "start_handle" => native_handler = latest
    /\ pc \in {"stop_cancel", "stop_simstop", "stop_destroy", "stop_destroying"} => latest \in Threads
    /\ pc = "stop_simstop" => LastCall = Call("pthread_cancel", latest, 0)

C7_Witness ==
    /\ pc = "stop_simstop"
    /\ op = "stop"
    /\ latest = 2
    /\ Alive(1)
    /\ workers[2].cancel
    /\ calls = <<Call("pthread_cancel", 2, 0)>>

\* The interface names of the specification, by node index.
SpecTapNames == <<"tap0-ns", "tap1-ns", "tap2-ns">>

\* C8: a worker that has finished its setup has created exactly n nodes, one
\* channel with the configured delay carrying n devices, and has issued exactly
\* n bridge calls, for node i and device i under the name tap<i>-ns, i ascending.
C8_WorkerBuildsConfiguredTopology ==
    \A w \in Threads :
        workers[w].pc \in {"run", "running", "destroy", "destroying"} =>
            /\ workers[w].nodes = workers[w].n
            /\ workers[w].chan = <<[delay |-> workers[w].delay, ndev |-> workers[w].n]>>
            /\ workers[w].bridges =
                   [k \in 1..workers[w].n |->
                       [name |-> SpecTapNames[k], node |-> k - 1, dev |-> k - 1]]

\* C9: chgd followed by an integer d calls restart_thread(d, n_nodes) and chgn
\* followed by an integer n calls restart_thread(delay, n); the other parameter
\* is the one the loop holds, 0 and 3 before any change.
C9_RestartArguments ==
    /\ [](op = "main" => delay = 0 /\ n_nodes = 3)
    /\ [][/\ (pc = "read_d" /\ pc' # pc /\ consumed'.kind = "int")
               => /\ pc' = "stop_cancel" /\ op' = "restart"
                  /\ argDelay' = Atoi(consumed'.text) /\ argN' = n_nodes
                  /\ delay' = argDelay' /\ n_nodes' = n_nodes
          /\ (pc = "read_n" /\ pc' # pc /\ consumed'.kind = "int")
               => /\ pc' = "stop_cancel" /\ op' = "restart"
                  /\ argN' = Atoi(consumed'.text) /\ argDelay' = delay
                  /\ n_nodes' = argN' /\ delay' = delay]_vars

C9_Witness ==
    /\ pc = "stop_cancel"
    /\ op = "restart"
    /\ consumed = Item("int", "2")
    /\ argDelay = 50
    /\ argN = 2

\* C10: a token other than stop, chgd and chgn makes the loop go back to the
\* prompt with no call made and the session, the handle, delay and n_nodes as
\* they were.
C10_UnknownTokenIgnored ==
    [][(pc = "dispatch" /\ in \notin Commands /\ pc' # pc)
         => /\ pc' = "prompt"
            /\ calls' = <<>>
            /\ UNCHANGED <<op, delay, n_nodes, argDelay, argN, thrd, native_handler,
                           csma, simStop, workers, latest>>]_vars

C10_Witness ==
    /\ pc = "prompt"
    /\ consumed = Item("word", "foo")
    /\ in = ""
    /\ calls = <<>>
    /\ status = "Running"

\* The calls stop_thread makes for the handle h, and the calls start_thread(d, n) makes.
StopCalls(h) ==
    <<Call("pthread_cancel", h, 0), Call("Simulator::Stop", 0, 0),
      Call("Simulator::Destroy", 0, 0)>>

StartCalls(d, n) == <<Call("std::thread", d, n)>>

\* C11: restart_thread(d, n) is stop_thread() followed at once by start_thread(d, n):
\* the calls the controller makes are those of a stop followed by those of a start
\* with the new arguments and no other call, and it ends as a start ends, with the
\* handle of the new thread recorded.
C11_RestartIsStopThenStart ==
    /\ (op = "main" /\ pc = "prompt" /\ calls # <<>>)
         => calls = StartCalls(argDelay, argN) /\ native_handler = latest
    /\ (op = "stop" /\ pc = "prompt" /\ calls # <<>>)
         => calls = StopCalls(native_handler)
    /\ (op = "restart" /\ pc = "start_spawn")
         => calls = StopCalls(native_handler)
    /\ (op = "restart" /\ pc = "start_handle")
         => calls = StopCalls(native_handler) \o StartCalls(argDelay, argN)
    /\ (op = "restart" /\ pc = "prompt" /\ calls # <<>>)
         => /\ calls = StopCalls(latest - 1) \o StartCalls(argDelay, argN)
            /\ native_handler = latest
            /\ thrd = NoHandle

C11_Witness ==
    /\ op = "restart"
    /\ pc = "prompt"
    /\ calls = StopCalls(1) \o StartCalls(50, 3)
    /\ native_handler = 2
    /\ Alive(2)

\* C12: when the token after chgd or chgn is not an integer, the loop goes back to
\* its prompt: neither stop_thread, start_thread nor restart_thread is called, and
\* the session, the handle, delay and n_nodes stay as they were.
C12_BadIntegerStaysLocal ==
    [][(pc \in {"read_d", "read_n"} /\ pc' # pc /\ consumed'.kind = "none")
         => /\ pc' = "prompt"
            /\ UNCHANGED <<op, delay, n_nodes, thrd, native_handler, csma, simStop,
                           workers, latest, calls>>]_vars

\* C13: a failure of the engine inside a worker ends that worker thread only: the
\* process goes on, the controller stays where it was in its loop and every other
\* thread is as it was.
C13_EngineFaultEndsOnlyWorker ==
    [][\A w \in Threads :
          WEngineFault(w) => /\ pc' = pc
                             /\ workers' = [workers EXCEPT ![w] = Idle]]_vars

\* main has left its loop: the return of line 213.
MainReturned == pc = "returned"

\* C14: once a read has met the end of input, the command loop eventually ends
\* (main returns, or the process has ended) instead of iterating for ever.
C14_LoopEndsAtEndOfInput == eof ~> (MainReturned \/ pc = "aborted")

\* C15: every stop_thread makes its calls in the order pthread_cancel on the
\* recorded handle, Simulator::Stop, Simulator::Destroy: the first call of a stop
\* or a restart is the cancellation, and no engine call of it comes before.
C15_StopCallOrder ==
    /\ (op \in {"stop", "restart"} /\ calls # <<>>)
         => calls[1] = Call("pthread_cancel", calls[1].a, 0)
    /\ pc = "stop_cancel" => calls = <<>>
    /\ pc = "stop_simstop" => calls = SubSeq(StopCalls(native_handler), 1, 1)
    /\ pc = "stop_destroy" => calls = SubSeq(StopCalls(native_handler), 1, 2)
    /\ pc = "stop_destroying" => calls = StopCalls(native_handler)
    /\ StopReturned => calls = StopCalls(native_handler)

C15_Witness ==
    /\ StopReturned
    /\ op = "stop"
    /\ calls = StopCalls(1)
    /\ ~simStop

\* The threads that are inside Simulator::Destroy(); 0 stands for the controller.
InDestroy ==
    {w \in Threads : workers[w].pc = "destroying"}
        \cup (IF pc = "stop_destroying" THEN {0} ELSE {})

\* C16: Simulator::Destroy() is never executed by two threads at once: a worker's
\* own call after its run loop has returned never overlaps the call stop_thread
\* makes on the controller thread.
C16_DestroyNeverConcurrent == Cardinality(InDestroy) <= 1

\* stop_thread has cancelled thread w and has returned.
StopReturnedFor(w) ==
    /\ workers[w].cancel
    /\ ~(pc \in {"stop_simstop", "stop_destroy", "stop_destroying"} /\ native_handler = w)

\* C17: once stop_thread has returned, the worker it cancelled makes no further
\* engine call: it stays where it is until it ends.
C17_NoEngineCallAfterStop ==
    [][\A w \in Threads :
          StopReturnedFor(w) => workers'[w].pc \in {workers[w].pc, "none"}]_vars

\* C18: every worker thread a stop (alone or inside a restart) has just called
\* pthread_cancel on eventually terminates, when every thread keeps being scheduled.
C18_CancelledWorkerTerminates ==
    \A w \in Threads :
        (pc = "stop_simstop" /\ native_handler = w /\ Alive(w)) ~> ~Alive(w)

C18_Witness ==
    /\ pc = "prompt"
    /\ calls = StopCalls(1)
    /\ native_handler = 1
    /\ ~Alive(1)

\* The place of each position of createSimulation in the order of its engine calls.
Rank(p) ==
    CASE p = "none" -> 0
      [] p = "configure" -> 1
      [] p = "create" -> 2
      [] p = "setdelay" -> 3
      [] p = "install" -> 4
      [] p = "bridge" -> 5
      [] p = "run" -> 6
      [] p = "running" -> 7
      [] p = "destroy" -> 8
      [] p = "destroying" -> 9

C20_WorkerUsesCapturedConfig ==
    /\ [](\A w \in Threads :
            /\ workers[w].nodes \in {0, workers[w].n}
            /\ Rank(workers[w].pc) >= 3 => workers[w].nodes = workers[w].n
            /\ Rank(workers[w].pc) >= 6 =>
                   workers[w].bridges =
                       [k \in 1..workers[w].n |->
                           [name |-> TapName(k - 1), node |-> k - 1, dev |-> k - 1]])
    /\ [][\A w \in Threads :
            /\ (~Alive(w) /\ workers'[w].pc # "none")
                 => workers'[w].delay = argDelay /\ workers'[w].n = argN
            /\ (Alive(w) /\ workers'[w].pc # "none")
                 => /\ workers'[w].delay = workers[w].delay
                    /\ workers'[w].n = workers[w].n]_vars

C20_Witness ==
    /\ pc = "stop_cancel"
    /\ op = "restart"
    /\ n_nodes = 2
    /\ workers[1].n = 3
    /\ workers[1].pc = "run"
    /\ Len(workers[1].bridges) = 3

====
